---- MODULE Spec2Model ----
(***************************************************************************)
(* Model of app/app.py: module start-up (environment mode, database       *)
(* collection, model registry) and the POST /predict request flow          *)
(* (conditional_auth dependency, prediction fan-out, best-effort insert,   *)
(* JSON response).                                                         *)
(*                                                                         *)
(* Text that the code inspects character by character (the ENV value) is   *)
(* a sequence of one-character strings; file names are sequences of        *)
(* tokens (a stem and its extensions), which is exact for endswith and     *)
(* replace on the names used here.                                         *)
(***************************************************************************)
EXTENDS Integers, Sequences, FiniteSets, TLC

VARIABLES
    pc,           \* position of the module-level start-up code
    osEnv,        \* os.environ["ENV"] of the process
    envAtImport,  \* the value os.getenv returned on line 23 (history)
    ENV,          \* module global ENV
    collection,   \* module global collection (may stay unbound)
    dir,          \* files of intent_classifier/models
    model_files,  \* the filtered listing of line 76
    loadIdx,      \* position of the loading loop of line 81
    MODELS,       \* module global MODELS, in dict insertion order
    req           \* the in-flight POST /predict requests

vars == <<pc, osEnv, envAtImport, ENV, collection, dir, model_files, loadIdx,
          MODELS, req>>

----------------------------------------------------------------------------
\* Bounds of the model

\* largest number of files in the models directory
MaxFiles == 2
\* timestamps are drawn from 0..MaxTimestamp
MaxTimestamp == 1

\* request slots served one at a time / concurrently
SeqRequests == {1}
ConcRequests == {1, 2}

----------------------------------------------------------------------------
\* Text helpers

Dev == <<"d", "e", "v">>
Prod == <<"p", "r", "o", "d">>

LowerChar(c) ==
    CASE c = "D" -> "d" [] c = "E" -> "e" [] c = "V" -> "v"
      [] c = "P" -> "p" [] c = "R" -> "r" [] c = "O" -> "o"
      [] OTHER -> c

UpperChar(c) ==
    CASE c = "d" -> "D" [] c = "e" -> "E" [] c = "v" -> "V"
      [] c = "p" -> "P" [] c = "r" -> "R" [] c = "o" -> "O"
      [] OTHER -> c

\* a conversion that forgets to fold case
LowerVerbatim(s) == s

\* str.lower()
Lower(s) == [i \in 1..Len(s) |-> LowerChar(s[i])]

\* str.upper()
Upper(s) == [i \in 1..Len(s) |-> UpperChar(s[i])]

\* the environment variable: unset, or set to a value
Unset == [present |-> FALSE, value |-> <<>>]
SetTo(v) == [present |-> TRUE, value |-> v]

\* os.getenv(name, default)
getenv(env, default) == IF env.present THEN env.value ELSE default

EnvValues == {Dev, <<"D", "E", "V">>, <<"D", "e", "v">>, Prod, <<"d", "e">>}
EnvSettings == {Unset} \cup {SetTo(v) : v \in EnvValues}

\* the ENV line of the .env file: none, or a value
DotenvSettings == {Unset, SetTo(Dev), SetTo(<<"D", "E", "V">>), SetTo(Prod)}

\* load_dotenv(): a variable of the file is written into the environment
\* unless the environment already holds it
load_dotenv(env, file) == IF env.present THEN env ELSE file

\* values a later setenv writes
LaterEnvValues == {Dev, Prod}

----------------------------------------------------------------------------
\* Start-up

\* the mode read on line 23
ReadMode(env) == Lower(getenv(env, Prod))

\* the name handed to get_mongo_collection on line 50
CollectionName(mode) == Upper(mode) \o <<"_intent_logs">>

Unbound == [state |-> "unbound", name |-> <<>>]
Handle(name) == [state |-> "handle", name |-> name]
None == [state |-> "none", name |-> <<>>]

\* what the call of line 50 may do: return a collection, return None (the
\* value line 129 guards against), or raise (the except of line 52)
ConnectOutcomes == {"handle", "none", "raise"}

\* get_mongo_collection(name): raised tells whether it ends in an exception,
\* value is what it returns otherwise
get_mongo_collection(name, outcome) ==
    [raised |-> outcome = "raise",
     value |-> IF outcome = "handle" THEN Handle(name) ELSE None]

\* files the directory may hold
DirFiles == {<<"a", ".keras">>, <<"b", ".keras">>,
             <<"a", ".keras", ".keras">>, <<"notes", ".txt">>}

\* f.endswith(".keras")
EndsWithKeras(f) == Len(f) > 0 /\ f[Len(f)] = ".keras"

\* model_file.replace(".keras", "")
RECURSIVE StripKeras(_)
StripKeras(f) ==
    IF f = <<>> THEN <<>>
    ELSE IF Head(f) = ".keras" THEN StripKeras(Tail(f))
    ELSE <<Head(f)>> \o StripKeras(Tail(f))

\* the orders os.listdir may return the directory in
RECURSIVE Orderings(_)
Orderings(S) ==
    IF S = {} THEN {<<>>}
    ELSE UNION {{<<f>> \o rest : rest \in Orderings(S \ {f})} : f \in S}

\* the list comprehension of line 76
RECURSIVE KerasOnly(_)
KerasOnly(listing) ==
    IF listing = <<>> THEN <<>>
    ELSE IF EndsWithKeras(Head(listing))
         THEN <<Head(listing)>> \o KerasOnly(Tail(listing))
         ELSE KerasOnly(Tail(listing))

\* MODELS[model_name] = predictor: a dict keeps the position of a key that
\* is assigned again
DictPut(models, name, path) ==
    IF \E i \in 1..Len(models) : models[i].name = name
    THEN [i \in 1..Len(models) |->
            IF models[i].name = name THEN [name |-> name, path |-> path]
            ELSE models[i]]
    ELSE Append(models, [name |-> name, path |-> path])

\* a loader that drops what it had loaded when an artifact fails
RegistryDroppedOnFailure(models) == <<>>

\* the except branch of lines 95-97 leaves MODELS as it is
RegistryAfterLoadFailure(models) == models

\* Init: before app.py is imported
InitWith(requests, envs, dirs) ==
    /\ pc = "dotenv"
    /\ osEnv \in envs
    /\ envAtImport = Unset
    /\ ENV = <<>>
    /\ collection = Unbound
    /\ dir \in dirs
    /\ model_files = <<>>
    /\ loadIdx = 1
    /\ MODELS = <<>>
    /\ req = [r \in requests |->
                [pc |-> "idle", has_text |-> FALSE, text |-> "", owner |-> "",
                 calls |-> <<>>, response |-> [status |-> 0, body |-> <<>>]]]

Init ==
    InitWith(SeqRequests, EnvSettings,
             {d \in SUBSET DirFiles : Cardinality(d) <= MaxFiles})

\* line 20
LoadDotenv ==
    /\ pc = "dotenv"
    /\ \E file \in DotenvSettings : osEnv' = load_dotenv(osEnv, file)
    /\ pc' = "import"
    /\ UNCHANGED <<envAtImport, ENV, collection, dir, model_files, loadIdx,
                   MODELS, req>>

\* line 23
LoadEnv ==
    /\ pc = "import"
    /\ envAtImport' = osEnv
    /\ ENV' = ReadMode(osEnv)
    /\ pc' = "db"
    /\ UNCHANGED <<osEnv, collection, dir, model_files, loadIdx, MODELS, req>>

\* lines 49-54
ConnectDb ==
    /\ pc = "db"
    /\ \E outcome \in ConnectOutcomes :
         LET got == get_mongo_collection(CollectionName(ENV), outcome)
         IN collection' = IF got.raised THEN collection ELSE got.value
    /\ pc' = "list"
    /\ UNCHANGED <<osEnv, envAtImport, ENV, dir, model_files, loadIdx, MODELS, req>>

\* lines 72-79: os.listdir returns the files in some order, or raises
ListModels ==
    /\ pc = "list"
    /\ \/ \E listing \in Orderings(dir) :
            /\ model_files' = KerasOnly(listing)
            /\ pc' = "load"
       \/ /\ model_files' = <<>>
          /\ pc' = "serving"
    /\ UNCHANGED <<osEnv, envAtImport, ENV, collection, dir, loadIdx, MODELS, req>>

\* lines 81-97: one iteration of the loop, or its end
LoadModel ==
    /\ pc = "load"
    /\ IF loadIdx > Len(model_files)
       THEN /\ pc' = "serving"
            /\ UNCHANGED <<loadIdx, MODELS>>
       ELSE \E loaded \in BOOLEAN :
              IF loaded
              THEN /\ MODELS' = DictPut(MODELS, StripKeras(model_files[loadIdx]),
                                        model_files[loadIdx])
                   /\ loadIdx' = loadIdx + 1
                   /\ pc' = "load"
              ELSE /\ MODELS' = RegistryAfterLoadFailure(MODELS)
                   /\ loadIdx' = loadIdx
                   /\ pc' = "serving"
    /\ UNCHANGED <<osEnv, envAtImport, ENV, collection, dir, model_files, req>>

\* the environment variable is set again while the service runs
SetEnv ==
    /\ pc = "serving"
    /\ \E v \in LaterEnvValues :
         /\ osEnv # SetTo(v)
         /\ osEnv' = SetTo(v)
    /\ UNCHANGED <<pc, envAtImport, ENV, collection, dir, model_files, loadIdx,
                   MODELS, req>>

----------------------------------------------------------------------------
\* Authorization gate

DevUser == "dev_user"
Identities == {"prod_user_123", "user_b"}

\* what awaiting verify_token() may do: resolve an identity, or raise
VerifierOutcomes ==
    {[raised |-> FALSE, identity |-> u] : u \in Identities}
        \cup {[raised |-> TRUE, identity |-> ""]}

Unauthorized == [status |-> 401, body |-> [detail |-> "Authentication failed"]]
ServerError == [status |-> 500, body |-> [plain |-> "Internal Server Error"]]
NoResponse == [status |-> 0, body |-> <<>>]
\* the answer to a request without the required query parameter text
\* (JSON null is the value of "input": no query value was received)
JsonNull == [json |-> "null"]
UnprocessableEntity ==
    [status |-> 422,
     body |-> [detail |-> <<[type |-> "missing", loc |-> <<"query", "text">>,
                             msg |-> "Field required", input |-> JsonNull]>>]]

\* a gate that verifies the token in every mode
conditional_auth_always_verifies(env, outcome) ==
    IF outcome.raised
    THEN [verified |-> TRUE, raised |-> TRUE, owner |-> ""]
    ELSE [verified |-> TRUE, raised |-> FALSE, owner |-> outcome.identity]

\* a gate that lets a failed verification through as an anonymous caller
conditional_auth_swallows_failure(env, outcome) ==
    IF env = Dev
    THEN [verified |-> FALSE, raised |-> FALSE, owner |-> DevUser]
    ELSE IF outcome.raised
    THEN [verified |-> TRUE, raised |-> FALSE, owner |-> "anonymous"]
    ELSE [verified |-> TRUE, raised |-> FALSE, owner |-> outcome.identity]

\* conditional_auth: verified tells whether verify_token was awaited, raised
\* whether the dependency ends in HTTPException(401)
conditional_auth(env, outcome) ==
    IF env = Dev
    THEN [verified |-> FALSE, raised |-> FALSE, owner |-> DevUser]
    ELSE IF outcome.raised
    THEN [verified |-> TRUE, raised |-> TRUE, owner |-> ""]
    ELSE [verified |-> TRUE, raised |-> FALSE, owner |-> outcome.identity]

----------------------------------------------------------------------------
\* The /predict handler

Texts == {"ola", "hi"}
ObjectIdHexes == {"65f1c0de"}
DbErrorMessage == "Failed to log prediction to database."

\* model.predict(text): deterministic per loaded artifact and input
model_predict(path, text) ==
    [top_intent |-> [artifact |-> path, input |-> text],
     all_probs |-> [artifact |-> path, input |-> text]]

\* the entry written on lines 116-119
PredictionEntry(path, text) ==
    [top_intent |-> model_predict(path, text).top_intent,
     all_probs |-> model_predict(path, text).all_probs]

PredictCall(m, text, raised) ==
    [op |-> "predict", model |-> m.name, text |-> text, raised |-> raised]

\* a loop that leaves a failing model out and goes on with the others
FanOutIsolating(models, text, failAt) ==
    [calls |-> [i \in 1..Len(models) |-> PredictCall(models[i], text, i = failAt)],
     raised |-> FALSE,
     predictions |->
        [nm \in {models[i].name : i \in (1..Len(models)) \ {failAt}} |->
            LET i == CHOOSE j \in 1..Len(models) : models[j].name = nm
            IN PredictionEntry(models[i].path, text)]]

\* lines 113-119: the predictors are called in registry order; the
\* failAt-th call raises (0: none does) and the exception leaves the loop
FanOut(models, text, failAt) ==
    LET invoked == IF failAt = 0 THEN Len(models) ELSE failAt
    IN [calls |-> [i \in 1..invoked |-> PredictCall(models[i], text, i = failAt)],
        raised |-> failAt # 0,
        predictions |->
           [nm \in {models[i].name : i \in 1..invoked} |->
               LET i == CHOOSE j \in 1..Len(models) : models[j].name = nm
               IN PredictionEntry(models[i].path, text)]]

\* lines 121-126
Results(text, owner, predictions, now) ==
    [text |-> text, owner |-> owner, predictions |-> predictions,
     timestamp |-> now]

WithField(rec, k, v) == [f \in DOMAIN rec \cup {k} |-> IF f = k THEN v ELSE rec[f]]
WithoutField(rec, k) == [f \in DOMAIN rec \ {k} |-> rec[f]]

ObjectId(hex) == [oid |-> hex]
\* str(ObjectId)
Str(objectId) == objectId.oid

\* what collection.insert_one may do: the driver writes a fresh _id into the
\* document before it sends it, and the call may raise before or after that;
\* a stand-in collection (the MagicMock of the tests) returns or raises
\* without writing any _id
InsertOutcomes == [adds_id : BOOLEAN, raises : BOOLEAN]

\* collection.insert_one(results): the document as the call leaves it
insert_one(doc, outcome, hex) ==
    [doc |-> IF outcome.adds_id /\ "_id" \notin DOMAIN doc
             THEN WithField(doc, "_id", ObjectId(hex)) ELSE doc,
     raised |-> outcome.raises]

InsertCall(doc, outcome) ==
    [op |-> "insert_one", doc |-> doc, raised |-> outcome.raises,
     added_id |-> outcome.adds_id]

\* the except branch of lines 134-137
OnInsertError(results) == WithField(results, "db_error", DbErrorMessage)

\* lines 130-137: results after the try statement; results['_id'] on line
\* 132 raises KeyError inside the try when the call wrote no _id
Persist(results, outcome, hex) ==
    LET ins == insert_one(results, outcome, hex)
    IN IF ins.raised THEN OnInsertError(ins.doc)
       ELSE IF "_id" \notin DOMAIN ins.doc THEN OnInsertError(ins.doc)
       ELSE WithoutField(WithField(ins.doc, "id", Str(ins.doc["_id"])), "_id")

\* json.dumps cannot encode an ObjectId
JsonSerializable(content) == "_id" \notin DOMAIN content

\* line 140
JSONResponse(content) ==
    IF JsonSerializable(content) THEN [status |-> 200, body |-> content]
    ELSE ServerError

ResponseCall(content) == [op |-> "JSONResponse", content |-> content]

\* a handler that returns without logging the record
PersistenceSkipped(results, coll, outcome, hex) ==
    [calls |-> <<ResponseCall(results)>>, response |-> JSONResponse(results)]

\* lines 128-140: the calls made and the response.  Reading the unbound
\* global on line 129 raises NameError; a collection of None skips the
\* insert
PersistAndRespond(results, coll, outcome, hex) ==
    IF coll.state = "unbound"
    THEN [calls |-> <<>>, response |-> ServerError]
    ELSE IF coll.state = "none"
    THEN [calls |-> <<ResponseCall(results)>>, response |-> JSONResponse(results)]
    ELSE LET content == Persist(results, outcome, hex)
         IN [calls |-> <<InsertCall(results, outcome), ResponseCall(content)>>,
             response |-> JSONResponse(content)]

\* predict(text, owner): the calls it makes, in order, and its response
predict(text, owner, models, coll, failAt, outcome, hex, now) ==
    LET fan == FanOut(models, text, failAt)
    IN IF fan.raised
       THEN [calls |-> fan.calls, response |-> ServerError]
       ELSE LET tail == PersistAndRespond(
                            Results(text, owner, fan.predictions, now),
                            coll, outcome, hex)
            IN [calls |-> fan.calls \o tail.calls, response |-> tail.response]

----------------------------------------------------------------------------
\* Requests

\* the identity of whichever request was authenticated, read from a shared place
SharedArguments(reqs, r) ==
    LET authed == {q \in DOMAIN reqs : reqs[q].pc \in {"authed", "done"} /\ reqs[q].owner # ""}
        q == CHOOSE x \in authed : \A y \in authed : x <= y
    IN [text |-> reqs[q].text, owner |-> reqs[q].owner]

\* line 111: the handler's arguments are the request's own
HandlerArguments(reqs, r) == [text |-> reqs[r].text, owner |-> reqs[r].owner]

\* the queries a client sends: with the text parameter, or without it
Queries ==
    {[has_text |-> TRUE, text |-> t] : t \in Texts}
        \cup {[has_text |-> FALSE, text |-> ""]}

PendingVerification == [op |-> "verify_token", pending |-> TRUE,
                        raised |-> FALSE, identity |-> ""]
Verification(outcome) == [op |-> "verify_token", pending |-> FALSE,
                          raised |-> outcome.raised,
                          identity |-> outcome.identity]

\* line 111: once the dependency has resolved the owner, the required
\* parameter text is checked; a request without it is answered 422 and the
\* handler body does not run
Resolved(rq, owner, calls) ==
    IF rq.has_text
    THEN [rq EXCEPT !.pc = "authed", !.owner = owner, !.calls = calls]
    ELSE [rq EXCEPT !.pc = "done", !.owner = owner, !.calls = calls,
                    !.response = UnprocessableEntity]

\* a client sends POST /predict
Receive(r) ==
    /\ pc = "serving"
    /\ req[r].pc = "idle"
    /\ \E q \in Queries :
         req' = [req EXCEPT ![r] = [pc |-> "auth", has_text |-> q.has_text,
                                    text |-> q.text, owner |-> "",
                                    calls |-> <<>>, response |-> NoResponse]]
    /\ UNCHANGED <<pc, osEnv, envAtImport, ENV, collection, dir, model_files,
                   loadIdx, MODELS>>

\* conditional_auth, lines 57-65, up to its await: in dev mode it returns at
\* once, otherwise it calls verify_token and suspends
AuthBegin(r) ==
    /\ pc = "serving"
    /\ req[r].pc = "auth"
    /\ \E outcome \in VerifierOutcomes :
         LET a == conditional_auth(ENV, outcome)
         IN req' = [req EXCEPT ![r] =
                      IF a.verified
                      THEN [@ EXCEPT !.pc = "verifying",
                                     !.calls = <<PendingVerification>>]
                      ELSE Resolved(@, a.owner, <<>>)]
    /\ UNCHANGED <<pc, osEnv, envAtImport, ENV, collection, dir, model_files,
                   loadIdx, MODELS>>

\* conditional_auth, lines 65-68: verify_token resolves an identity or raises
AuthEnd(r) ==
    /\ pc = "serving"
    /\ req[r].pc = "verifying"
    /\ \E outcome \in VerifierOutcomes :
         LET a == conditional_auth(ENV, outcome)
         IN req' = [req EXCEPT ![r] =
                      IF a.raised
                      THEN [@ EXCEPT !.pc = "done",
                                     !.calls = <<Verification(outcome)>>,
                                     !.response = Unauthorized]
                      ELSE Resolved(@, a.owner, <<Verification(outcome)>>)]
    /\ UNCHANGED <<pc, osEnv, envAtImport, ENV, collection, dir, model_files,
                   loadIdx, MODELS>>

\* the body of predict, lines 112-140
Predict(r) ==
    /\ pc = "serving"
    /\ req[r].pc = "authed"
    /\ \E failAt \in 0..Len(MODELS), outcome \in InsertOutcomes,
          hex \in ObjectIdHexes, now \in 0..MaxTimestamp :
         LET args == HandlerArguments(req, r)
             out == predict(args.text, args.owner, MODELS, collection, failAt,
                            outcome, hex, now)
         IN req' = [req EXCEPT ![r] =
                      [@ EXCEPT !.pc = "done", !.calls = @ \o out.calls,
                                !.response = out.response]]
    /\ UNCHANGED <<pc, osEnv, envAtImport, ENV, collection, dir, model_files,
                   loadIdx, MODELS>>

\* the client has read the response
Collect(r) ==
    /\ pc = "serving"
    /\ req[r].pc = "done"
    /\ req' = [req EXCEPT ![r] = [pc |-> "idle", has_text |-> FALSE,
                                  text |-> "", owner |-> "",
                                  calls |-> <<>>, response |-> NoResponse]]
    /\ UNCHANGED <<pc, osEnv, envAtImport, ENV, collection, dir, model_files,
                   loadIdx, MODELS>>

Next ==
    \/ LoadDotenv
    \/ LoadEnv
    \/ ConnectDb
    \/ ListModels
    \/ LoadModel
    \/ SetEnv
    \/ \E r \in DOMAIN req : Receive(r)
    \/ \E r \in DOMAIN req : AuthBegin(r)
    \/ \E r \in DOMAIN req : AuthEnd(r)
    \/ \E r \in DOMAIN req : Predict(r)
    \/ \E r \in DOMAIN req : Collect(r)

Spec == Init /\ [][Next]_vars

\* two requests in flight at once, in a service whose directory holds two models
ConcInit ==
    InitWith(ConcRequests, {Unset, SetTo(Dev)},
             {{<<"a", ".keras">>, <<"b", ".keras">>}})

SpecConc == ConcInit /\ [][Next]_vars

----------------------------------------------------------------------------
\* Properties

Requests == DOMAIN req
Calls(r) == req[r].calls
CallsOf(r, op) == {i \in DOMAIN Calls(r) : Calls(r)[i].op = op}
RegistryNames == {MODELS[i].name : i \in DOMAIN MODELS}
RecordFields == {"text", "owner", "predictions", "timestamp"}
VerifierFailed(r) == \E i \in CallsOf(r, "verify_token") : Calls(r)[i].raised
PredictorFailed(r) == \E i \in CallsOf(r, "predict") : Calls(r)[i].raised
Answered(r) == req[r].pc = "done"

\* C1: in enforce mode, a request whose token verification raised is answered
\* with exactly 401 "Authentication failed", and neither a predictor nor the
\* insert was called for it.
C1_AuthFailureIs401 ==
    \A r \in Requests :
        (ENV # Dev /\ VerifierFailed(r)) =>
            /\ Answered(r)
            /\ req[r].response.status = 401
            /\ req[r].response.body = [detail |-> "Authentication failed"]
            /\ CallsOf(r, "predict") = {}
            /\ CallsOf(r, "insert_one") = {}

C1_Witness ==
    \E r \in Requests :
        /\ ENV # Dev /\ VerifierFailed(r) /\ Answered(r)
        /\ Len(MODELS) > 0 /\ collection.state = "handle"

\* the value names the development mode when compared without regard to case
NamesDevIgnoringCase(env) ==
    /\ env.present
    /\ Len(env.value) = 3
    /\ env.value[1] \in {"d", "D"}
    /\ env.value[2] \in {"e", "E"}
    /\ env.value[3] \in {"v", "V"}

\* the request went through the gate without the verifier being called
Bypassed(r) ==
    req[r].pc \in {"authed", "done"} /\ CallsOf(r, "verify_token") = {}
\* the request went through the gate by way of the verifier
Verified(r) ==
    /\ req[r].pc \in {"verifying", "authed", "done"}
    /\ CallsOf(r, "verify_token") # {}

\* C2: the gate bypasses verification iff the environment value read at
\* start-up equals "dev" ignoring case (any other value, or none, verifies),
\* and after start-up the mode never changes, whatever the environment
\* variable is set to later.
C2_GateFixedAtStartup ==
    /\ [](\A r \in Requests :
            /\ Bypassed(r) => NamesDevIgnoringCase(envAtImport)
            /\ Verified(r) => ~NamesDevIgnoringCase(envAtImport))
    /\ [][pc \notin {"dotenv", "import"} => ENV' = ENV]_vars

C2_Witness ==
    \E r \in Requests :
        /\ envAtImport = SetTo(<<"D", "E", "V">>)
        /\ osEnv = SetTo(Prod)
        /\ Bypassed(r) /\ Answered(r)
        /\ req[r].response.status = 200

\* C3: in bypass mode no request is answered 401, the verifier is never
\* called, and the owner of the request and of its response is "dev_user".
C3_BypassNever401 ==
    (pc = "serving" /\ ENV = Dev) =>
        \A r \in Requests :
            /\ req[r].response.status # 401
            /\ CallsOf(r, "verify_token") = {}
            /\ req[r].pc \in {"authed", "done"} => req[r].owner = "dev_user"
            /\ req[r].response.status = 200 =>
                   req[r].response.body.owner = "dev_user"

C3_Witness ==
    /\ ENV = Dev
    /\ \E r \in Requests : Answered(r) /\ req[r].response.status = 200

\* C4: every authenticated request (carrying its text, no predictor having
\* raised) is answered 200 with the request record, whether the insert
\* succeeds, raises, or the database connection was never established.
C4_AlwaysOkOnceAuthenticated ==
    \A r \in Requests :
        (/\ Answered(r) /\ req[r].response.status # 401
         /\ req[r].has_text /\ ~PredictorFailed(r)) =>
            /\ req[r].response.status = 200
            /\ RecordFields \subseteq DOMAIN req[r].response.body

\* C5: a request that reached the insert is answered with id and no db_error
\* when the insert returned, with the fixed db_error and no id when it
\* raised, and never with both.
C5_IdXorDbError ==
    \A r \in Requests : \A i \in CallsOf(r, "insert_one") :
        LET body == req[r].response.body
        IN /\ ~Calls(r)[i].raised =>
                  "id" \in DOMAIN body /\ "db_error" \notin DOMAIN body
           /\ Calls(r)[i].raised =>
                  /\ "db_error" \in DOMAIN body
                  /\ body.db_error = "Failed to log prediction to database."
                  /\ "id" \notin DOMAIN body
           /\ ~("id" \in DOMAIN body /\ "db_error" \in DOMAIN body)

\* C6: every record inserted or returned carries exactly one prediction per
\* registered model, and when a predictor raises nothing is inserted and no
\* record is returned.
C6_NoPartialFanOut ==
    \A r \in Requests :
        /\ \A i \in CallsOf(r, "insert_one") :
               DOMAIN Calls(r)[i].doc.predictions = RegistryNames
        /\ \A i \in CallsOf(r, "JSONResponse") :
               DOMAIN Calls(r)[i].content.predictions = RegistryNames
        /\ req[r].response.status = 200 =>
               DOMAIN req[r].response.body.predictions = RegistryNames
        /\ PredictorFailed(r) =>
               /\ CallsOf(r, "insert_one") = {}
               /\ CallsOf(r, "JSONResponse") = {}
               /\ req[r].response.status # 200

C6_Witness ==
    \E r \in Requests :
        /\ Answered(r) /\ Len(MODELS) = 2
        /\ Cardinality(CallsOf(r, "predict")) = 2
        /\ PredictorFailed(r)

\* C7: with requests in flight at once in enforce mode, a 200 response holds
\* the identity the verifier resolved for that very request, that request's
\* text, and the predictions of the registered models for that text.
C7_ResponseBelongsToRequest ==
    \A r \in Requests :
        (ENV # Dev /\ req[r].response.status = 200) =>
            LET body == req[r].response.body
            IN /\ \E i \in CallsOf(r, "verify_token") :
                      ~Calls(r)[i].raised /\ Calls(r)[i].identity = body.owner
               /\ body.text = req[r].text
               /\ \A i \in DOMAIN MODELS :
                      body.predictions[MODELS[i].name] =
                          [top_intent |-> model_predict(MODELS[i].path, req[r].text).top_intent,
                           all_probs |-> model_predict(MODELS[i].path, req[r].text).all_probs]

C7_Witness ==
    /\ ENV # Dev /\ Len(MODELS) = 2
    /\ \E r, q \in Requests :
          /\ req[r].response.status = 200 /\ req[q].response.status = 200
          /\ req[r].response.body.owner # req[q].response.body.owner
          /\ req[r].response.body.text # req[q].response.body.text

\* C8: a request answered 200 made exactly one insert call, after one call
\* to every registered predictor and before the response was built, and the
\* inserted document was the request's text, owner, predictions and
\* timestamp, without id or db_error.
C8_InsertOnceBetweenPredictAndRespond ==
    \A r \in Requests :
        (Answered(r) /\ req[r].response.status = 200) =>
            /\ Cardinality(CallsOf(r, "insert_one")) = 1
            /\ Cardinality(CallsOf(r, "JSONResponse")) = 1
            /\ Cardinality(CallsOf(r, "predict")) = Len(MODELS)
            /\ {Calls(r)[i].model : i \in CallsOf(r, "predict")} = RegistryNames
            /\ \A i \in CallsOf(r, "insert_one") :
                  /\ \A p \in CallsOf(r, "predict") : p < i
                  /\ \A j \in CallsOf(r, "JSONResponse") : i < j
                  /\ DOMAIN Calls(r)[i].doc = RecordFields
                  /\ Calls(r)[i].doc.text = req[r].text
                  /\ Calls(r)[i].doc.owner = req[r].owner
                  /\ Calls(r)[i].doc.predictions = req[r].response.body.predictions
                  /\ Calls(r)[i].doc.timestamp = req[r].response.body.timestamp

\* C8 (amended): a request answered 200 by a service whose collection is not
\* None made exactly one insert call, after one call to every registered
\* predictor and before the response was built, on the request's text, owner,
\* predictions and timestamp without id or db_error; when the collection is
\* None it made no insert call, and its response, built after every predictor
\* was called, is that four-field record.
C8_InsertOnceUnlessCollectionIsNone ==
    \A r \in Requests :
        (Answered(r) /\ req[r].response.status = 200) =>
            /\ Cardinality(CallsOf(r, "JSONResponse")) = 1
            /\ Cardinality(CallsOf(r, "predict")) = Len(MODELS)
            /\ {Calls(r)[i].model : i \in CallsOf(r, "predict")} = RegistryNames
            /\ \A j \in CallsOf(r, "JSONResponse") :
                  \A p \in CallsOf(r, "predict") : p < j
            /\ IF collection.state = "none"
               THEN /\ CallsOf(r, "insert_one") = {}
                    /\ DOMAIN req[r].response.body = RecordFields
               ELSE /\ Cardinality(CallsOf(r, "insert_one")) = 1
                    /\ \A i \in CallsOf(r, "insert_one") :
                          /\ \A p \in CallsOf(r, "predict") : p < i
                          /\ \A j \in CallsOf(r, "JSONResponse") : i < j
                          /\ DOMAIN Calls(r)[i].doc = RecordFields
                          /\ Calls(r)[i].doc.text = req[r].text
                          /\ Calls(r)[i].doc.owner = req[r].owner
                          /\ Calls(r)[i].doc.predictions =
                                 req[r].response.body.predictions
                          /\ Calls(r)[i].doc.timestamp =
                                 req[r].response.body.timestamp

C8_Witness ==
    \E r \in Requests :
        /\ Answered(r) /\ req[r].response.status = 200
        /\ collection.state = "handle"
        /\ Len(MODELS) = 2
        /\ Cardinality(CallsOf(r, "insert_one")) = 1
        /\ "db_error" \in DOMAIN req[r].response.body

\* the artifacts the loop got through before it stopped
LoadedPrefix == SubSeq(model_files, 1, loadIdx - 1)

\* C9: when constructing a predictor raises, start-up still ends with the
\* service answering, the registry holds exactly the models loaded before the
\* failing artifact, and no request ever changes the registry.
C9_LoadFailsOpen ==
    /\ [](pc = "serving" =>
            /\ RegistryNames = {StripKeras(LoadedPrefix[i]) : i \in DOMAIN LoadedPrefix}
            /\ \A m \in DOMAIN MODELS :
                  \E i \in DOMAIN LoadedPrefix :
                      /\ MODELS[m].path = LoadedPrefix[i]
                      /\ StripKeras(LoadedPrefix[i]) = MODELS[m].name
                      /\ \A j \in DOMAIN LoadedPrefix :
                            StripKeras(LoadedPrefix[j]) = MODELS[m].name => j <= i)
    /\ [][pc = "serving" => (pc' = "serving" /\ MODELS' = MODELS)]_vars

C9_Witness ==
    /\ pc = "serving"
    /\ Len(model_files) = 2 /\ loadIdx = 2 /\ Len(MODELS) = 1
    /\ \E r \in Requests :
          /\ Answered(r) /\ req[r].response.status = 200
          /\ DOMAIN req[r].response.body.predictions = RegistryNames

\* C10: no response body holds _id: whenever the insert wrote _id into the
\* record it is gone from what is serialised, whether the insert returned or
\* raised.
C10_NoInternalIdSerialised ==
    \A r \in Requests :
        /\ "_id" \notin DOMAIN req[r].response.body
        /\ \A i \in CallsOf(r, "JSONResponse") :
               "_id" \notin DOMAIN Calls(r)[i].content

====
